---- MODULE Spec2Model ----
(***************************************************************************)
(* A model of the MCP protocol clients and of the inline agent of          *)
(* jupdec/mcp-server-go-test.                                              *)
(*                                                                         *)
(* Two programs hold a copy of the protocol client (MCPClient):            *)
(*   "mcp_time"  src/mcp_time/main.go   (MCPClient, InlineAgent)           *)
(*   "part_001"  src/unnamed/part_001   (MCPClient, BedrockToolHandler)    *)
(* The copies differ in sendRequest and in Initialize; the variable        *)
(* program says which one runs.                                            *)
(*                                                                         *)
(* An HTTP exchange is one step: the client puts a message on the wire     *)
(* and the environment (the tool server, the network) answers with a       *)
(* response drawn from a bounded set.                                      *)
(***************************************************************************)
EXTENDS Integers, Sequences, FiniteSets, TLC

VARIABLES
    program,       \* which program runs: "mcp_time" or "part_001"
    requestID,     \* MCPClient.requestID of every client
    sent,          \* history: the messages each client has put on the wire, in order
    initialized,   \* history: Initialize has returned nil on the client at least once
    last,          \* the last top-level call: its inputs, what it sent, what it returned
    ActionGroups,  \* InlineAgent.ActionGroups
    toolOwner,     \* history: per installed group, the client that advertised each tool
    adding,        \* the AddActionGroup call in progress (its locals), if any
    invoke,        \* the Invoke call (its locals, its position, what it returned)
    serving,       \* per goroutine calling into the shared client: its position and locals
    handling,      \* the last HandleToolUse / handleToolUse call on a decoded map
    host           \* the streaming tool host (test/mcp): its tools, its loop, its stream

vars == <<program, requestID, sent, initialized, last, ActionGroups, toolOwner, adding, invoke,
          serving, handling, host>>

----------------------------------------------------------------------------
(* Bounds of the model *)

\* Number of MCPClient objects
NClients == 2
\* Direct client calls are made while the client's counter is below this
MaxRequestID == 3
\* Number of action groups the agent installs
MaxGroups == 2
\* Longest tool list a server advertises in the agent specification
MaxTools == 1
\* Number of model turns (Converse calls) of one Invoke
MaxTurns == 2
\* Number of goroutines that call into one client at the same time
NCallers == 2
\* Number of NextMessage calls of the streaming tool host
MaxMessages == 3

Clients == 1 .. NClients

Programs == {"mcp_time", "part_001"}

ToolNames == {"echo", "time"}

----------------------------------------------------------------------------
(* JSON values of a response's result field *)

NoToolsField == [k |-> "absent", items |-> <<>>]

\* result absent, or null
NullResult == [t |-> "null", tools |-> NoToolsField, content |-> <<>>, isError |-> FALSE]

\* a JSON string or number
ScalarResult == [t |-> "scalar", tools |-> NoToolsField, content |-> <<>>, isError |-> FALSE]

\* a JSON array
ArrayResult == [t |-> "array", tools |-> NoToolsField, content |-> <<>>, isError |-> FALSE]

\* {"tools": [...]}: items is the sequence of Tool records
ToolsResult(items) ==
    [t |-> "object", tools |-> [k |-> "array", items |-> items],
     content |-> <<>>, isError |-> FALSE]

\* {"tools": null}, {"tools": "x"}, {"tools": {}}
BadToolsResult(kind) ==
    [t |-> "object", tools |-> [k |-> kind, items |-> <<>>],
     content |-> <<>>, isError |-> FALSE]

\* {"content": [...], "isError": b}
CallResult(content, isErr) ==
    [t |-> "object", tools |-> NoToolsField, content |-> content, isError |-> isErr]

Tool(name) == [Name |-> name]

TextBlock(text) == [Type |-> "text", Text |-> text]

----------------------------------------------------------------------------
(* Response bodies: a sequence of lines. A line is an SSE event line        *)
(* ("event: ..."), an SSE data line ("data: <doc>") or plain text (<doc>).  *)
(* A doc is a piece of text: blank, a JSON envelope, or anything else.      *)

NoError == [set |-> FALSE, Code |-> 0]

ServerError(code) == [set |-> TRUE, Code |-> code]

\* text that is the JSON of an envelope {jsonrpc, id, result?, error?}
EnvelopeDoc(id, result, error) ==
    [blank |-> FALSE, valid |-> TRUE, id |-> id, result |-> result, error |-> error]

\* the empty string
BlankDoc == [blank |-> TRUE, valid |-> FALSE, id |-> 0, result |-> NullResult, error |-> NoError]

\* text that is not the JSON of an object
JunkDoc == [blank |-> FALSE, valid |-> FALSE, id |-> 0, result |-> NullResult, error |-> NoError]

EventLine == [k |-> "event", doc |-> BlankDoc]

DataLine(doc) == [k |-> "data", doc |-> doc]

TextLine(doc) == [k |-> "text", doc |-> doc]

EmptyBody == <<>>

PlainBody(doc) == <<TextLine(doc)>>

SSEBody(doc) == <<EventLine, DataLine(doc)>>

SSENoDataBody == <<EventLine>>

\* an SSE stream with two data lines
SSEBody2(doc1, doc2) == <<EventLine, DataLine(doc1), DataLine(doc2)>>

\* An HTTP response, or the failure of the exchange (neterr: connection refused, timeout)
Response(status, body) == [neterr |-> FALSE, status |-> status, body |-> body]

NetError == [neterr |-> TRUE, status |-> 0, body |-> EmptyBody]

StatusOK == 200

----------------------------------------------------------------------------
(* Errors returned by the client: the fmt.Errorf of the source, by kind *)

Nil == [kind |-> "nil", code |-> 0, status |-> 0, wrap |-> ""]

Err(kind) == [kind |-> kind, code |-> 0, status |-> 0, wrap |-> ""]

ErrHTTPStatus(status) == [kind |-> "HTTP error", code |-> 0, status |-> status, wrap |-> ""]

ErrMCP(code) == [kind |-> "MCP error", code |-> code, status |-> 0, wrap |-> ""]

ErrNotification(code) == [kind |-> "notification error", code |-> code, status |-> 0, wrap |-> ""]

Wrap(prefix, err) == [err EXCEPT !.wrap = prefix]

----------------------------------------------------------------------------
(* encoding/json and io, as the clients use them *)

NilParams == [k |-> "nil", name |-> "", arguments |-> ""]

EmptyMapParams == [k |-> "map", name |-> "", arguments |-> ""]

InitializeParams == [k |-> "initialize", name |-> "", arguments |-> ""]

CallParams(name, arguments) == [k |-> "call", name |-> name, arguments |-> arguments]

\* json.Marshal of an MCPRequest: jsonrpc, id and method are always written
\* (no omitempty on them), params only when it is not nil.
MarshalRequest(req) ==
    [fields |-> {"jsonrpc", "id", "method"}
                   \cup (IF req.Params.k = "nil" THEN {} ELSE {"params"}),
     jsonrpc |-> req.JSONRPC, id |-> req.ID, method |-> req.Method,
     params |-> req.Params]

NilResponse == [ID |-> 0, Result |-> NullResult, Error |-> NoError]

\* io.ReadAll on a response body: everything not yet read; the body is then at EOF
\* and a later ReadAll returns no bytes and no error.
NewBody(data) == [data |-> data, eof |-> FALSE]

ReadAll(b) ==
    [bytes |-> IF b.eof THEN <<>> ELSE b.data, body |-> [b EXCEPT !.eof = TRUE]]

\* strings.HasPrefix(bodyStr, "event:")
HasEventPrefix(bytes) == Len(bytes) > 0 /\ bytes[1].k = "event"

\* json.Unmarshal of a piece of text into an MCPResponse
UnmarshalDoc(doc) ==
    IF doc.valid
    THEN [ok |-> TRUE, resp |-> [ID |-> doc.id, Result |-> doc.result, Error |-> doc.error]]
    ELSE [ok |-> FALSE, resp |-> NilResponse]

\* json.Unmarshal of a whole body: it must be one JSON value
UnmarshalBody(bytes) ==
    IF Len(bytes) = 1 /\ bytes[1].k = "text"
    THEN UnmarshalDoc(bytes[1].doc)
    ELSE [ok |-> FALSE, resp |-> NilResponse]

\* a scan that keeps the last line starting with "data:"
extractSSEData_last(bytes) ==
    LET idx == {i \in 1 .. Len(bytes) : bytes[i].k = "data"}
    IN IF idx = {} THEN BlankDoc
       ELSE bytes[CHOOSE i \in idx : \A j \in idx : i >= j].doc

\* extractSSEData: the trimmed rest of the first line starting with "data:", or ""
extractSSEData(bytes) ==
    LET idx == {i \in 1 .. Len(bytes) : bytes[i].k = "data"}
    IN IF idx = {} THEN BlankDoc
       ELSE bytes[CHOOSE i \in idx : \A j \in idx : i <= j].doc

----------------------------------------------------------------------------
(* MCPClient.sendRequest. Each copy returns the new value of c.requestID,   *)
(* the message it put on the wire, the error and the response it returns.   *)

\* a counter that is not advanced
NextRequestID_stale(rid) == rid

\* c.requestID++
NextRequestID(rid) == rid + 1

SendOutcome(id, msg, err, resp) ==
    [requestID |-> id, wire |-> <<msg>>, err |-> err, resp |-> resp]

\* a response whose ID field is left at its zero value
NullResponse_zero(id) == [ID |-> 0, Result |-> NullResult, Error |-> NoError]

NullResponse(id) == [ID |-> id, Result |-> NullResult, Error |-> NoError]

\* What the sendRequest inside a call returned to it
Sent(s) == [err |-> s.err, resp |-> s.resp]

NoSend == [err |-> Nil, resp |-> NilResponse]

\* What both copies do with a non-empty body that begins with "event:"
SSEOutcome(id, msg, bytes) ==
    LET jsonData == extractSSEData(bytes)
        u == UnmarshalDoc(jsonData)
    IN IF jsonData.blank THEN SendOutcome(id, msg, Nil, NullResponse(id))
       ELSE IF ~u.ok THEN SendOutcome(id, msg, Err("failed to unmarshal SSE JSON data"), NilResponse)
       ELSE IF u.resp.Error.set THEN SendOutcome(id, msg, ErrMCP(u.resp.Error.Code), NilResponse)
       ELSE SendOutcome(id, msg, Nil, u.resp)

\* src/mcp_time/main.go
sendRequest_time(rid, method, params, r) ==
    LET id == NextRequestID(rid)
        msg == MarshalRequest([JSONRPC |-> "2.0", ID |-> id, Method |-> method, Params |-> params])
        body == ReadAll(NewBody(r.body)).bytes
        u == UnmarshalBody(body)
    IN IF r.neterr THEN SendOutcome(id, msg, Err("HTTP request failed"), NilResponse)
       ELSE IF r.status # StatusOK THEN SendOutcome(id, msg, ErrHTTPStatus(r.status), NilResponse)
       ELSE IF Len(body) = 0 THEN SendOutcome(id, msg, Nil, NullResponse(id))
       ELSE IF HasEventPrefix(body) THEN SSEOutcome(id, msg, body)
       ELSE IF ~u.ok THEN SendOutcome(id, msg, Err("failed to unmarshal response"), NilResponse)
       ELSE IF u.resp.Error.set THEN SendOutcome(id, msg, ErrMCP(u.resp.Error.Code), NilResponse)
       ELSE SendOutcome(id, msg, Nil, u.resp)

\* {"raw": "<body>"}: an object with no tools, content or isError field
RawResult == CallResult(<<>>, FALSE)

\* src/unnamed/part_001: the body is read with io.ReadAll a second time after the
\* status check, and a body that is not JSON is returned as a result.
sendRequest_part001(rid, method, params, r) ==
    LET id == NextRequestID(rid)
        msg == MarshalRequest([JSONRPC |-> "2.0", ID |-> id, Method |-> method, Params |-> params])
        first == ReadAll(NewBody(r.body))
        body == ReadAll(first.body).bytes
        u == UnmarshalBody(body)
    IN IF r.neterr THEN SendOutcome(id, msg, Err("HTTP request failed"), NilResponse)
       ELSE IF r.status # StatusOK THEN SendOutcome(id, msg, ErrHTTPStatus(r.status), NilResponse)
       ELSE IF Len(body) = 0 THEN SendOutcome(id, msg, Nil, NullResponse(id))
       ELSE IF HasEventPrefix(body) THEN SSEOutcome(id, msg, body)
       ELSE IF ~u.ok
            THEN SendOutcome(id, msg, Nil, [ID |-> id, Result |-> RawResult, Error |-> NoError])
       ELSE IF u.resp.Error.set THEN SendOutcome(id, msg, ErrMCP(u.resp.Error.Code), NilResponse)
       ELSE SendOutcome(id, msg, Nil, u.resp)

\* a sendRequest that rejects a response whose id is not the request's
sendRequest_checked(prog, rid, method, params, r) ==
    LET s == IF prog = "mcp_time" THEN sendRequest_time(rid, method, params, r)
             ELSE sendRequest_part001(rid, method, params, r)
    IN IF s.err = Nil /\ s.resp.ID # NextRequestID(rid)
       THEN [s EXCEPT !.err = Err("response id mismatch"), !.resp = NilResponse]
       ELSE s

sendRequest(prog, rid, method, params, r) ==
    IF prog = "mcp_time" THEN sendRequest_time(rid, method, params, r)
    ELSE sendRequest_part001(rid, method, params, r)

----------------------------------------------------------------------------
(* MCPClient.Initialize. used is the number of HTTP exchanges it made.      *)

InitOutcome(id, wire, err, used, s) ==
    [requestID |-> id, wire |-> wire, err |-> err, used |-> used, send |-> Sent(s)]

\* The notification: an MCPRequest whose ID field is left at its zero value
NotifyMessage ==
    MarshalRequest([JSONRPC |-> "2.0", ID |-> 0, Method |-> "notifications/initialized",
                    Params |-> EmptyMapParams])

\* src/mcp_time/main.go: the notification's response is read and logged only
Initialize_time(rid, r1, r2) ==
    LET s == sendRequest_time(rid, "initialize", InitializeParams, r1)
        id == NextRequestID(s.requestID)
        wire == s.wire \o <<NotifyMessage>>
    IN IF s.err # Nil THEN InitOutcome(s.requestID, s.wire, s.err, 1, s)
       ELSE IF r2.neterr THEN InitOutcome(id, wire, Err("notification request failed"), 2, s)
       ELSE InitOutcome(id, wire, Nil, 2, s)

\* src/unnamed/part_001: the notification's response is parsed for an error
Initialize_part001(rid, r1, r2) ==
    LET s == sendRequest_part001(rid, "initialize", InitializeParams, r1)
        id == NextRequestID(s.requestID)
        wire == s.wire \o <<NotifyMessage>>
        body == ReadAll(NewBody(r2.body)).bytes
        notifyResp == IF HasEventPrefix(body) THEN UnmarshalDoc(extractSSEData(body))
                      ELSE UnmarshalBody(body)
    IN IF s.err # Nil THEN InitOutcome(s.requestID, s.wire, s.err, 1, s)
       ELSE IF r2.neterr THEN InitOutcome(id, wire, Err("notification request failed"), 2, s)
       ELSE IF Len(body) > 0 /\ notifyResp.ok /\ notifyResp.resp.Error.set
            THEN InitOutcome(id, wire, ErrNotification(notifyResp.resp.Error.Code), 2, s)
       ELSE InitOutcome(id, wire, Nil, 2, s)

Initialize(prog, rid, r1, r2) ==
    IF prog = "mcp_time" THEN Initialize_time(rid, r1, r2)
    ELSE Initialize_part001(rid, r1, r2)

----------------------------------------------------------------------------
(* MCPClient.ListTools and MCPClient.CallTool (the same in both copies)     *)

\* json.Unmarshal of the tools value into []Tool: an array gives its records,
\* null leaves the slice nil, anything else is an error
UnmarshalTools(tools) ==
    CASE tools.k = "array" -> [ok |-> TRUE, tools |-> tools.items]
      [] tools.k = "null" -> [ok |-> TRUE, tools |-> <<>>]
      [] OTHER -> [ok |-> FALSE, tools |-> <<>>]

ListTools(prog, rid, r) ==
    LET s == sendRequest(prog, rid, "tools/list", NilParams, r)
        u == UnmarshalTools(s.resp.Result.tools)
        out(err, tools) == [requestID |-> s.requestID, wire |-> s.wire, err |-> err,
                            tools |-> tools, send |-> Sent(s)]
    IN IF s.err # Nil THEN out(s.err, <<>>)
       ELSE IF s.resp.Result.t # "object" THEN out(Err("unexpected response format"), <<>>)
       ELSE IF s.resp.Result.tools.k = "absent" THEN out(Err("no tools found in response"), <<>>)
       ELSE IF ~u.ok THEN out(Err("failed to unmarshal tools"), <<>>)
       ELSE out(Nil, u.tools)

ZeroToolResult == [Content |-> <<>>, IsError |-> FALSE]

\* json.Unmarshal of the result into a ToolResult: null leaves the zero value,
\* an object fills the fields it has, a scalar or an array is an error
UnmarshalToolResult(result) ==
    CASE result.t = "null" -> [ok |-> TRUE, result |-> ZeroToolResult]
      [] result.t = "object" ->
            [ok |-> TRUE, result |-> [Content |-> result.content, IsError |-> result.isError]]
      [] OTHER -> [ok |-> FALSE, result |-> ZeroToolResult]

CallTool(prog, rid, toolCall, r) ==
    LET s == sendRequest(prog, rid, "tools/call", CallParams(toolCall.Name, toolCall.Arguments), r)
        u == UnmarshalToolResult(s.resp.Result)
        out(err, result) == [requestID |-> s.requestID, wire |-> s.wire, err |-> err,
                             result |-> result, send |-> Sent(s)]
    IN IF s.err # Nil THEN out(s.err, ZeroToolResult)
       ELSE IF ~u.ok THEN out(Err("failed to unmarshal result"), ZeroToolResult)
       ELSE out(Nil, u.result)

----------------------------------------------------------------------------
(* What the environment may answer *)

\* JSON-RPC error codes a server answers with (-32601: method not found)
ServerErrorCodes == {-32601}

\* A response around every body shape the clients tell apart, for the result
\* documents in docs: network failure, statuses other than 200, and for 200 an
\* empty body, an SSE stream without data, and each document plain and SSE-framed
ResponsesWith(docs) ==
    {Response(StatusOK, b) :
        b \in {EmptyBody, SSENoDataBody} \cup {PlainBody(d) : d \in docs}
                  \cup {SSEBody(d) : d \in docs}}
        \cup {Response(202, EmptyBody), Response(204, EmptyBody),
              Response(500, PlainBody(JunkDoc)), NetError}

ErrorDoc == EnvelopeDoc(1, NullResult, ServerError(CHOOSE code \in ServerErrorCodes : TRUE))

\* {"protocolVersion": ..., "capabilities": ..., "serverInfo": ...}
InitializeResult == CallResult(<<>>, FALSE)

\* Answers to initialize and to notifications/initialized
HandshakeResponses ==
    ResponsesWith({EnvelopeDoc(1, InitializeResult, NoError), ErrorDoc, JunkDoc})

\* Answers to tools/list
ListResponses ==
    ResponsesWith({EnvelopeDoc(1, ToolsResult(<<Tool("echo")>>), NoError),
                   EnvelopeDoc(1, NullResult, NoError), ErrorDoc, JunkDoc,
                   EnvelopeDoc(1, BadToolsResult("null"), NoError),
                   EnvelopeDoc(1, BadToolsResult("string"), NoError),
                   EnvelopeDoc(1, CallResult(<<>>, FALSE), NoError)})

\* Answers to tools/call
CallResponses ==
    ResponsesWith({EnvelopeDoc(1, CallResult(<<TextBlock("12:00:00Z")>>, FALSE), NoError),
                   EnvelopeDoc(1, ScalarResult, NoError), ErrorDoc, JunkDoc})
        \cup {Response(StatusOK, SSEBody2(
                    EnvelopeDoc(1, CallResult(<<TextBlock("12:00:00Z")>>, FALSE), NoError),
                    ErrorDoc))}

ToolCalls ==
    {[Name |-> "time", Arguments |-> "format=RFC3339"], [Name |-> "echo", Arguments |-> ""]}

NoCall == [Name |-> "", Arguments |-> ""]

----------------------------------------------------------------------------
(* InlineAgent.Invoke and InlineAgent.handleToolUse (src/mcp_time/main.go):  *)
(* the values they work on. A Go string of the conversation is a sequence   *)
(* of pieces, "" is <<>>, and concatenation is \o.                          *)

\* a nil *MCPClient
NilClient == 0

Str(s) == IF s = "" THEN <<>> ELSE <<s>>

\* strings.Builder: WriteString of every text, in order, then String()
RECURSIVE WriteStrings(_)
WriteStrings(texts) ==
    IF texts = <<>> THEN <<>> ELSE Head(texts) \o WriteStrings(Tail(texts))

\* A value of an interface type with its dynamic type. ToolUseBlock.Input is declared
\* document.Interface, an interface with methods: a map[string]interface{} has no
\* method and is never the dynamic type of one.
Document(value) == [dyn |-> "document.Interface", value |-> value]

\* make(map[string]interface{}), and {} on the wire
NoArguments == ""

NoInput == Document(NoArguments)

ConversationRoleUser == "user"

ConversationRoleAssistant == "assistant"

ContentBlockMemberText(value) ==
    [kind |-> "text", Value |-> value, ToolUseId |-> "", Name |-> "",
     Input |-> NoInput, Status |-> ""]

ContentBlockMemberToolUse(toolUseId, name, input) ==
    [kind |-> "toolUse", Value |-> <<>>, ToolUseId |-> toolUseId, Name |-> name,
     Input |-> input, Status |-> ""]

\* A ToolResultBlock with one text content block; Status "" is the unset field
ContentBlockMemberToolResult(toolUseId, text, status) ==
    [kind |-> "toolResult", Value |-> text, ToolUseId |-> toolUseId, Name |-> "",
     Input |-> NoInput, Status |-> status]

\* a message that is always of the user role
Message_user(role, content) == [Role |-> "user", Content |-> content]

Message(role, content) == [Role |-> role, Content |-> content]

\* err.Error(): the wrapping prefix and the message, without their numbers
ErrorString(err) == Str(err.wrap) \o Str(err.kind)

\* The map Invoke builds from a tool-use block of the assistant message
ToolUseMap(c) == [toolUseId |-> c.ToolUseId, name |-> c.Name, input |-> c.Input]

\* a scan that collects the tool-use blocks last to first
ToolUsesOf_reversed(content) ==
    LET uses == SelectSeq(content, LAMBDA c : c.kind = "toolUse")
    IN [i \in 1 .. Len(uses) |-> ToolUseMap(uses[Len(uses) + 1 - i])]

\* The scan of the assistant message: the tool-use blocks, in order
ToolUsesOf(content) ==
    LET uses == SelectSeq(content, LAMBDA c : c.kind = "toolUse")
    IN [i \in 1 .. Len(uses) |-> ToolUseMap(uses[i])]

\* a scan that keeps the first text block only
TextResponseOf_first(content) ==
    LET texts == SelectSeq(content, LAMBDA c : c.kind = "text")
    IN IF texts = <<>> THEN <<>> ELSE texts[1].Value

\* The scan of the assistant message: textResponse, the text blocks written in order
TextResponseOf(content) ==
    LET texts == SelectSeq(content, LAMBDA c : c.kind = "text")
    IN WriteStrings([i \in 1 .. Len(texts) |-> texts[i].Value])

\* input, ok := toolUse["input"].(map[string]interface{}); if !ok { input = make(...) }
InputOf(toolUse) ==
    IF toolUse.input.dyn = "map[string]interface{}" THEN toolUse.input.value ELSE NoArguments

\* toolCall := ToolCall{Name: name, Arguments: input}
ToolCallOf(toolUse) == [Name |-> toolUse.name, Arguments |-> InputOf(toolUse)]

ResultMap(toolUseID, content, status) ==
    [toolUseId |-> toolUseID, content |-> content, status |-> status]

HandleOutcome(result, err, called) == [result |-> result, err |-> err, called |-> called]

NoResultMap == ResultMap("", <<>>, "")

\* The map returned for a tool no client was found for
NotFoundResult(toolUse) ==
    ResultMap(toolUse.toolUseId, <<[text |-> <<"Tool '", toolUse.name, "' not found">>]>>,
              "error")

\* The map returned when CallTool returned err
CallErrorResult(toolUse, err) ==
    ResultMap(toolUse.toolUseId,
              <<[text |-> <<"Error executing tool: ">> \o ErrorString(err)]>>, "error")

\* The map returned for the ToolResult of CallTool
CallResultMap(toolUse, result) ==
    ResultMap(toolUse.toolUseId,
              [i \in 1 .. Len(result.Content) |-> [text |-> Str(result.Content[i].Text)]],
              IF result.IsError THEN "error" ELSE "success")

\* a handleToolUse for which a tool that is not found is an error
handleToolUse_strict(toolUse, mcpClient, call) ==
    IF mcpClient = NilClient THEN HandleOutcome(NoResultMap, Err("tool not found"), FALSE)
    ELSE IF call.err # Nil THEN HandleOutcome(CallErrorResult(toolUse, call.err), Nil, TRUE)
    ELSE HandleOutcome(CallResultMap(toolUse, call.result), Nil, TRUE)

\* a handleToolUse that returns the error of CallTool to its caller
handleToolUse_hard(toolUse, mcpClient, call) ==
    IF mcpClient = NilClient THEN HandleOutcome(NotFoundResult(toolUse), Nil, FALSE)
    ELSE IF call.err # Nil THEN HandleOutcome(NoResultMap, call.err, TRUE)
    ELSE HandleOutcome(CallResultMap(toolUse, call.result), Nil, TRUE)

\* InlineAgent.handleToolUse, given the client findMCPClientForTool returned and,
\* for a client, what its CallTool returned. The name is a string in every map
\* Invoke builds, so "missing tool name" is never returned.
handleToolUse(toolUse, mcpClient, call) ==
    IF mcpClient = NilClient THEN HandleOutcome(NotFoundResult(toolUse), Nil, FALSE)
    ELSE IF call.err # Nil THEN HandleOutcome(CallErrorResult(toolUse, call.err), Nil, TRUE)
    ELSE HandleOutcome(CallResultMap(toolUse, call.result), Nil, TRUE)

\* A value of type interface{} with its dynamic type, as encoding/json decodes it
\* into a map[string]interface{}: a JSON string is a string, a number a float64,
\* an object a map; the value of a key the map does not have is nil.
Dyn(dyn, value) == [dyn |-> dyn, value |-> value]

NilValue == Dyn("nil", "")

\* s, _ := v.(string): the zero string when the dynamic type is not string
StringOf(v) == IF v.dyn = "string" THEN v.value ELSE ""

\* toolUseID, name and input as the first lines of the function hold them
AssertedToolUse(toolUse) ==
    [toolUseId |-> StringOf(toolUse.toolUseId), name |-> StringOf(toolUse.name),
     input |-> toolUse.input]

\* return nil, fmt.Errorf("missing tool name")
MissingToolName == HandleOutcome(NoResultMap, Err("missing tool name"), FALSE)

\* BedrockToolHandler.HandleToolUse (part_001) on any map, given what CallTool of
\* the handler's client returned
HandleToolUse(toolUse, call) ==
    IF toolUse.name.dyn # "string" THEN MissingToolName
    ELSE IF call.err # Nil
    THEN HandleOutcome(CallErrorResult(AssertedToolUse(toolUse), call.err), Nil, TRUE)
    ELSE HandleOutcome(CallResultMap(AssertedToolUse(toolUse), call.result), Nil, TRUE)

\* InlineAgent.handleToolUse (mcp_time) on any map
handleToolUseOfMap(toolUse, mcpClient, call) ==
    IF toolUse.name.dyn # "string" THEN MissingToolName
    ELSE handleToolUse(AssertedToolUse(toolUse), mcpClient, call)

NotHandling ==
    [done |-> FALSE, toolUse |-> [toolUseId |-> NilValue, name |-> NilValue, input |-> NilValue],
     client |-> NilClient, out |-> HandleOutcome(NoResultMap, Nil, FALSE),
     result |-> ZeroToolResult, callErr |-> Nil]

\* Invoke's conversion of the returned map: the texts of content written into one
\* text block of a ToolResultBlock that has ToolUseId and Content only
ToolResultOf(result) ==
    ContentBlockMemberToolResult(
        result.toolUseId,
        WriteStrings([i \in 1 .. Len(result.content) |-> result.content[i].text]),
        "")

\* What Invoke returns
Returned(text, err) == [text |-> text, err |-> err]

NotInvoking ==
    [pc |-> "idle", inputText |-> <<>>, messages |-> <<>>, input |-> <<>>,
     toolConfig |-> <<>>,
     toolUses |-> <<>>, toolResults |-> <<>>, k |-> 0, turns |-> 0,
     ret |-> Returned(<<>>, Nil), log |-> <<>>,
     handled |-> HandleOutcome(NoResultMap, Nil, FALSE),
     cancelled |-> FALSE]

----------------------------------------------------------------------------
(* The state machine *)

\* main's first client: mcpClient1 (mcp_time), handler.mcpClient (part_001)
mcpClient1 == 1

LastCall(op, c, rs, call, out, tools, result) ==
    [op |-> op, client |-> c, rs |-> rs, call |-> call, err |-> out.err,
     tools |-> tools, result |-> result, wire |-> out.wire,
     ready |-> initialized[c], before |-> requestID[c], send |-> out.send]

NoLast ==
    [op |-> "none", client |-> 0, rs |-> <<>>, call |-> NoCall, err |-> Nil,
     tools |-> <<>>, result |-> ZeroToolResult, wire |-> <<>>,
     ready |-> FALSE, before |-> 0, send |-> NoSend]

NotAdding == [active |-> FALSE, Name |-> "", MCPClients |-> <<>>, Tools |-> <<>>,
              owners |-> <<>>, i |-> 0, before |-> <<>>]

Callers == 1 .. NCallers

\* Tool names of the streaming tool host
HostTools == {"echo", "time"}

\* m.tools[name] of a name that was never registered: a nil ToolHandler
NilHandler == "nil"

\* NewClient of test/mcp: a session and an empty tools map; Start not yet called
NewClient ==
    [pc |-> "new", tools |-> [name \in HostTools |-> NilHandler],
     received |-> <<>>, responded |-> <<>>]

NotServing == [g \in Callers |-> [pc |-> "idle", tmp |-> 0, call |-> NoCall, err |-> Nil]]

NewClients ==
    /\ requestID = [c \in Clients |-> 0]
    /\ sent = [c \in Clients |-> <<>>]
    /\ initialized = [c \in Clients |-> FALSE]
    /\ last = NoLast
    /\ ActionGroups = <<>>
    /\ toolOwner = <<>>
    /\ adding = NotAdding
    /\ invoke = NotInvoking
    /\ serving = NotServing
    /\ handling = NotHandling
    /\ host = NewClient

\* c.Initialize(ctx) called by the program's main thread
InitializeCall(c, r1, r2) ==
    LET out == Initialize(program, requestID[c], r1, r2)
    IN /\ ~adding.active
       /\ requestID[c] < MaxRequestID
       /\ out.used = 1 => r2 = r1    \* r2 is not consumed: one state for all of them
       /\ requestID' = [requestID EXCEPT ![c] = out.requestID]
       /\ sent' = [sent EXCEPT ![c] = @ \o out.wire]
       /\ initialized' = [initialized EXCEPT ![c] = @ \/ out.err = Nil]
       /\ last' = LastCall("Initialize", c, IF out.used = 1 THEN <<r1>> ELSE <<r1, r2>>,
                           NoCall, out, <<>>, ZeroToolResult)
       /\ UNCHANGED <<program, ActionGroups, toolOwner, adding, invoke, serving, handling, host>>

\* c.ListTools(ctx) called by the program's main thread
ListToolsCall(c, r) ==
    LET out == ListTools(program, requestID[c], r)
    IN /\ ~adding.active
       /\ requestID[c] < MaxRequestID
       /\ requestID' = [requestID EXCEPT ![c] = out.requestID]
       /\ sent' = [sent EXCEPT ![c] = @ \o out.wire]
       /\ last' = LastCall("ListTools", c, <<r>>, NoCall, out, out.tools, ZeroToolResult)
       /\ UNCHANGED <<program, initialized, ActionGroups, toolOwner, adding, invoke, serving, handling, host>>

\* c.CallTool(ctx, toolCall) called by the program's main thread
CallToolCall(c, toolCall, r) ==
    LET out == CallTool(program, requestID[c], toolCall, r)
    IN /\ ~adding.active
       /\ requestID[c] < MaxRequestID
       /\ requestID' = [requestID EXCEPT ![c] = out.requestID]
       /\ sent' = [sent EXCEPT ![c] = @ \o out.wire]
       /\ last' = LastCall("CallTool", c, <<r>>, toolCall, out, <<>>, out.result)
       /\ UNCHANGED <<program, initialized, ActionGroups, toolOwner, adding, invoke, serving, handling, host>>

----------------------------------------------------------------------------
(* InlineAgent: action groups and tool resolution (src/mcp_time/main.go)    *)

ActionGroup(name, clients, tools) == [Name |-> name, MCPClients |-> clients, Tools |-> tools]

\* The tools of all groups, in the order the nested loops visit them
RECURSIVE AllTools(_)
AllTools(groups) ==
    IF groups = <<>> THEN <<>>
    ELSE Head(groups).Tools \o AllTools(Tail(groups))

\* InlineAgent.buildToolConfig: one tool specification per tool, in loop order
buildToolConfig(groups) ==
    LET tools == AllTools(groups)
    IN [i \in 1 .. Len(tools) |-> [toolSpec |-> [Name |-> tools[i].Name]]]

\* a scan that keeps the last group holding the name instead of returning at the first
findMCPClientForTool_last(groups, toolName) ==
    LET hits == {g \in 1 .. Len(groups) :
                    /\ \E t \in 1 .. Len(groups[g].Tools) : groups[g].Tools[t].Name = toolName
                    /\ Len(groups[g].MCPClients) > 0}
    IN IF hits = {} THEN NilClient
       ELSE groups[CHOOSE g \in hits : \A h \in hits : g >= h].MCPClients[1]

\* InlineAgent.findMCPClientForTool: the first group, in order, that holds a tool
\* of that name and has a client gives its FIRST client
findMCPClientForTool(groups, toolName) ==
    LET hits == {g \in 1 .. Len(groups) :
                    /\ \E t \in 1 .. Len(groups[g].Tools) : groups[g].Tools[t].Name = toolName
                    /\ Len(groups[g].MCPClients) > 0}
    IN IF hits = {} THEN NilClient
       ELSE groups[CHOOSE g \in hits : \A h \in hits : g <= h].MCPClients[1]

\* an iteration that calls ListTools whatever Initialize returned
MemberOutcome_eager(ini, lst) ==
    [requestID |-> lst.requestID, wire |-> ini.wire \o lst.wire, used |-> 3,
     err |-> IF ini.err # Nil THEN Wrap("failed to initialize MCP client", ini.err)
             ELSE IF lst.err # Nil THEN Wrap("failed to list tools", lst.err) ELSE Nil,
     initialized |-> ini.err = Nil,
     tools |-> IF ini.err = Nil /\ lst.err = Nil THEN lst.tools ELSE <<>>,
     send |-> ini.send]

\* What one iteration of AddActionGroup's loop returns, from what Initialize (ini)
\* and ListTools (lst) returned
MemberOutcome(ini, lst) ==
    IF ini.err # Nil
    THEN [requestID |-> ini.requestID, wire |-> ini.wire, used |-> ini.used,
          err |-> Wrap("failed to initialize MCP client", ini.err),
          initialized |-> FALSE, tools |-> <<>>, send |-> ini.send]
    ELSE IF lst.err # Nil
    THEN [requestID |-> lst.requestID, wire |-> ini.wire \o lst.wire, used |-> 3,
          err |-> Wrap("failed to list tools", lst.err),
          initialized |-> TRUE, tools |-> <<>>, send |-> ini.send]
    ELSE [requestID |-> lst.requestID, wire |-> ini.wire \o lst.wire, used |-> 3,
          err |-> Nil, initialized |-> TRUE, tools |-> lst.tools, send |-> ini.send]

\* ListTools on the counter Initialize left
ListAfter(prog, ini, r3) == MemberOutcome(ini, ListTools(prog, ini.requestID, r3))

\* One iteration of AddActionGroup's loop, for a member with counter rid:
\* Initialize, then ListTools
AddMember(prog, rid, r1, r2, r3) == ListAfter(prog, Initialize(prog, rid, r1, r2), r3)

\* a group installed whatever the loop returned
InstallGroups_partial(groups, group, err) == Append(groups, group)

\* What AddActionGroup leaves in a.ActionGroups when it returns: the group is
\* appended only after the loop has ended without an error
InstallGroups(groups, group, err) ==
    IF err = Nil THEN Append(groups, group) ELSE groups

\* agent.AddActionGroup(actionGroup) is called; with no member the loop body never
\* runs and the group is appended at once
AddActionGroupCall(name, clients) ==
    /\ ~adding.active
    /\ Len(ActionGroups) < MaxGroups
    /\ \A i \in 1 .. Len(clients) : requestID[clients[i]] = 0   \* made by NewMCPClient for this group
    /\ IF clients = <<>>
       THEN /\ ActionGroups' = InstallGroups(ActionGroups, ActionGroup(name, clients, <<>>), Nil)
            /\ toolOwner' = Append(toolOwner, <<>>)
            /\ adding' = [NotAdding EXCEPT !.Name = name, !.before = ActionGroups]
            /\ last' = [NoLast EXCEPT !.op = "AddActionGroup"]
       ELSE /\ adding' = [active |-> TRUE, Name |-> name, MCPClients |-> clients,
                          Tools |-> <<>>, owners |-> <<>>, i |-> 1, before |-> ActionGroups]
            /\ last' = [NoLast EXCEPT !.op = "AddActionGroup:call"]
            /\ UNCHANGED <<ActionGroups, toolOwner, serving, handling, host>>
    /\ UNCHANGED <<program, requestID, sent, initialized, invoke, serving, handling, host>>

\* The state after one iteration of the loop for member c that returned out,
\* and after the last iteration the append and the return
MemberAdded(c, out, rs) ==
    LET tools == adding.Tools \o out.tools
        owners == adding.owners \o [k \in 1 .. Len(out.tools) |-> c]
        finished == out.err # Nil \/ adding.i = Len(adding.MCPClients)
    IN /\ \A k \in out.used + 1 .. Len(rs) : rs[k] = NetError   \* not consumed: one state for all
       /\ requestID' = [requestID EXCEPT ![c] = out.requestID]
       /\ sent' = [sent EXCEPT ![c] = @ \o out.wire]
       /\ initialized' = [initialized EXCEPT ![c] = @ \/ out.initialized]
       /\ last' = LastCall(IF finished THEN "AddActionGroup" ELSE "AddActionGroup:member",
                           c, SubSeq(rs, 1, out.used), NoCall, out,
                           out.tools, ZeroToolResult)
       /\ ActionGroups' =
             IF finished
             THEN InstallGroups(ActionGroups,
                                ActionGroup(adding.Name, adding.MCPClients, tools), out.err)
             ELSE ActionGroups
       /\ toolOwner' = IF finished /\ out.err = Nil THEN Append(toolOwner, owners)
                       ELSE toolOwner
       /\ adding' = IF finished
                    THEN [adding EXCEPT !.active = FALSE, !.Tools = tools, !.owners = owners]
                    ELSE [adding EXCEPT !.Tools = tools, !.owners = owners, !.i = @ + 1]
       /\ UNCHANGED <<program, invoke, serving, handling, host>>

MemberStep(c, r1, r2, r3) ==
    MemberAdded(c, AddMember(program, requestID[c], r1, r2, r3), <<r1, r2, r3>>)

\* One iteration of the loop of the AddActionGroup call in progress
AddActionGroupStep(r1, r2, r3) ==
    /\ adding.active
    /\ MemberStep(adding.MCPClients[adding.i], r1, r2, r3)

----------------------------------------------------------------------------
(* InlineAgent.Invoke, one step per call it makes to the outside: the model  *)
(* backend (Converse) and, per tool use, the tool server (CallTool)          *)

LogConverse == [ev |-> "Converse", id |-> "", n |-> Len(invoke.input), calls |-> 0]

LogToolUse(toolUse, call) ==
    [ev |-> "handleToolUse", id |-> toolUse.toolUseId, n |-> Len(invoke.messages),
     calls |-> Len(call.wire)]

\* agent.Invoke(inputText) is called after AddActionGroup has returned nil: the
\* conversation is one user message, the tool configuration is built
InvokeCall(inputText) ==
    /\ invoke.pc = "idle"
    /\ ~adding.active
    /\ last.op = "AddActionGroup" /\ last.err = Nil
    /\ invoke' = [NotInvoking EXCEPT
                    !.pc = "converse",
                    !.inputText = inputText,
                    !.messages = <<Message(ConversationRoleUser,
                                           <<ContentBlockMemberText(inputText)>>)>>,
                    !.input = <<Message(ConversationRoleUser,
                                        <<ContentBlockMemberText(inputText)>>)>>,
                    !.toolConfig = buildToolConfig(ActionGroups)]
    /\ UNCHANGED <<program, requestID, sent, initialized, last, ActionGroups, toolOwner, adding, serving, handling, host>>

\* The caller of Invoke raises a cancellation signal while Invoke waits for the
\* model or for a tool. Invoke takes no context from its caller: its ctx is
\* context.Background(), which is never done, so nothing in Invoke reads the signal.
CancelSignal ==
    /\ invoke.pc \in {"converse", "tools"}
    /\ ~invoke.cancelled
    /\ invoke' = [invoke EXCEPT !.cancelled = TRUE]
    /\ UNCHANGED <<program, requestID, sent, initialized, last, ActionGroups, toolOwner, adding, serving, handling, host>>

\* "for {": after the tool results are appended the loop goes on, whatever the
\* number of turns so far
LoopContinues_capped(turns) == turns < 1

LoopContinues(turns) == TRUE

\* The top of the loop: Converse returns; an error ends Invoke, otherwise the
\* assistant message is appended and scanned, and without a tool use its text is
\* returned
ConverseReturned(reply, messages, toolUses) ==
    /\ invoke' =
          IF reply.err
          THEN [invoke EXCEPT !.pc = "returned", !.turns = @ + 1,
                              !.log = Append(@, LogConverse),
                              !.ret = Returned(<<>>, Wrap("bedrock converse failed",
                                                          Err("converse")))]
          ELSE IF Len(toolUses) = 0
          THEN [invoke EXCEPT !.pc = "returned", !.turns = @ + 1,
                              !.log = Append(@, LogConverse),
                              !.messages = messages,
                              !.toolUses = toolUses, !.toolResults = <<>>,
                              !.ret = Returned(TextResponseOf(reply.content), Nil)]
          ELSE [invoke EXCEPT !.pc = "tools", !.turns = @ + 1,
                              !.log = Append(@, LogConverse),
                              !.messages = messages,
                              !.toolUses = toolUses, !.toolResults = <<>>, !.k = 1]
    /\ UNCHANGED <<program, requestID, sent, initialized, last, ActionGroups, toolOwner, adding, serving, handling, host>>

ConverseStep(reply) ==
    /\ invoke.pc = "converse"
    /\ invoke.turns < MaxTurns
    /\ ConverseReturned(reply,
                        Append(invoke.messages,
                               Message(ConversationRoleAssistant, reply.content)),
                        ToolUsesOf(reply.content))

\* CallTool was not called
NoCallOutcome ==
    [requestID |-> 0, wire |-> <<>>, err |-> Nil, result |-> ZeroToolResult, send |-> NoSend]

\* One iteration of the loop over toolUses: handleToolUse has returned h; its
\* error ends Invoke, otherwise the tool result is appended, and after the last
\* tool use the user message with all tool results
ToolUseHandled(toolUse, mcpClient, call, h, r) ==
    /\ invoke' =
          IF h.err # Nil
          THEN [invoke EXCEPT !.pc = "returned", !.handled = h,
                              !.log = Append(@, LogToolUse(toolUse, call)),
                              !.ret = Returned(<<>>, Wrap("tool execution failed", h.err))]
          ELSE IF invoke.k = Len(invoke.toolUses)
          THEN [invoke EXCEPT !.pc = IF LoopContinues(invoke.turns) THEN "converse"
                                     ELSE "returned",
                              !.handled = h,
                              !.log = Append(@, LogToolUse(toolUse, call)),
                              !.toolResults = Append(@, ToolResultOf(h.result)),
                              !.messages = Append(@, Message(ConversationRoleUser,
                                    Append(invoke.toolResults, ToolResultOf(h.result)))),
                              !.input = Append(invoke.messages, Message(ConversationRoleUser,
                                    Append(invoke.toolResults, ToolResultOf(h.result))))]
          ELSE [invoke EXCEPT !.handled = h, !.k = @ + 1,
                              !.log = Append(@, LogToolUse(toolUse, call)),
                              !.toolResults = Append(@, ToolResultOf(h.result))]
    /\ requestID' = IF h.called THEN [requestID EXCEPT ![mcpClient] = call.requestID]
                    ELSE requestID
    /\ sent' = IF h.called THEN [sent EXCEPT ![mcpClient] = @ \o call.wire] ELSE sent
    /\ last' = IF h.called
               THEN LastCall("handleToolUse", mcpClient, <<r>>, ToolCallOf(toolUse), call,
                             <<>>, call.result)
               ELSE [NoLast EXCEPT !.op = "handleToolUse"]
    /\ UNCHANGED <<program, initialized, ActionGroups, toolOwner, adding, serving, handling, host>>

ToolUseCalled(toolUse, mcpClient, call, r) ==
    ToolUseHandled(toolUse, mcpClient, call, handleToolUse(toolUse, mcpClient, call), r)

\* handleToolUse on the client findMCPClientForTool returned: no client, no CallTool
ToolUseResolved(toolUse, mcpClient, r) ==
    /\ mcpClient = NilClient => r = NetError    \* r is not consumed: one state for all
    /\ ToolUseCalled(toolUse, mcpClient,
                     IF mcpClient = NilClient THEN NoCallOutcome
                     ELSE CallTool(program, requestID[mcpClient], ToolCallOf(toolUse), r),
                     r)

HandleToolUseStep(r) ==
    /\ invoke.pc = "tools"
    /\ ToolUseResolved(invoke.toolUses[invoke.k],
                       findMCPClientForTool(ActionGroups, invoke.toolUses[invoke.k].name), r)

----------------------------------------------------------------------------
(* HandleToolUse / handleToolUse called on a map decoded from a request      *)

\* The function has returned h; call is what CallTool returned, if it was called
MapHandled(toolUse, mcpClient, call, h, r) ==
    /\ h.called => requestID[mcpClient] < MaxRequestID
    /\ ~h.called => r = NetError        \* r is not consumed: one state for all
    /\ requestID' = IF h.called THEN [requestID EXCEPT ![mcpClient] = call.requestID]
                    ELSE requestID
    /\ sent' = IF h.called THEN [sent EXCEPT ![mcpClient] = @ \o call.wire] ELSE sent
    /\ last' = IF h.called
               THEN LastCall("handleToolUse", mcpClient, <<r>>,
                             ToolCallOf(AssertedToolUse(toolUse)), call, <<>>, call.result)
               ELSE [NoLast EXCEPT !.op = "handleToolUse"]
    /\ handling' = [done |-> TRUE, toolUse |-> toolUse, client |-> mcpClient, out |-> h,
                    result |-> call.result, callErr |-> call.err]
    /\ UNCHANGED <<program, initialized, ActionGroups, toolOwner, adding, invoke, serving, host>>

\* The client the function calls: the one findMCPClientForTool returns (mcp_time),
\* h.mcpClient (part_001)
ClientFor(prog, groups, toolUse) ==
    IF prog = "part_001" THEN mcpClient1
    ELSE findMCPClientForTool(groups, StringOf(toolUse.name))

MapCalled(toolUse, mcpClient, call, r) ==
    MapHandled(toolUse, mcpClient, call,
               IF program = "part_001" THEN HandleToolUse(toolUse, call)
               ELSE handleToolUseOfMap(toolUse, mcpClient, call),
               r)

MapResolved(toolUse, mcpClient, r) ==
    MapCalled(toolUse, mcpClient,
              IF mcpClient = NilClient \/ toolUse.name.dyn # "string" THEN NoCallOutcome
              ELSE CallTool(program, requestID[mcpClient],
                            ToolCallOf(AssertedToolUse(toolUse)), r),
              r)

HandleToolUseCall(toolUse, r) ==
    /\ ~adding.active
    /\ invoke.pc = "idle"
    /\ MapResolved(toolUse, ClientFor(program, ActionGroups, toolUse), r)

----------------------------------------------------------------------------
(* The streaming tool host (src/test/mcp/client.go). A ToolHandler is        *)
(* modelled by what it returns: "ok" (a result) or "fail" (an error).        *)

\* m.tools[name] = handler
RegisterTool(name, handler) ==
    /\ host.pc = "new"
    /\ host' = [host EXCEPT !.tools[name] = handler]
    /\ UNCHANGED <<program, requestID, sent, initialized, last, ActionGroups, toolOwner,
                   adding, invoke, serving, handling>>

\* What session.NextMessage returns: a message, or an error
JsonRpcRequest(id, method, name) ==
    [kind |-> "request", Id |-> id, Method |-> method, name |-> name]

OtherMessage == [kind |-> "other", Id |-> 0, Method |-> "", name |-> NilValue]

NextMessageError == [kind |-> "error", Id |-> 0, Method |-> "", name |-> NilValue]

\* mcp.NewResponse(req.Id, result) and mcp.NewError(req.Id, err)
NewResponse(id) == [kind |-> "result", Id |-> id]

NewError(id) == [kind |-> "error", Id |-> id]

\* req.Params["name"].(string) panics unless the name is a string, and calling
\* the nil ToolHandler of an unregistered name panics; nothing recovers
Panics(tools, msg) ==
    \/ msg.name.dyn # "string"
    \/ msg.name.value \notin DOMAIN tools
    \/ tools[msg.name.value] = NilHandler

\* The body of the loop for an invokeTool request
invokeTool(h, msg) ==
    IF Panics(h.tools, msg) THEN [h EXCEPT !.pc = "panicked"]
    ELSE IF h.tools[msg.name.value] = "fail"
    THEN [h EXCEPT !.responded = Append(@, NewError(msg.Id))]
    ELSE [h EXCEPT !.responded = Append(@, NewResponse(msg.Id))]

\* One iteration of the loop of Start, NextMessage having returned msg
Iteration(h, msg) ==
    IF msg.kind = "error" THEN [h EXCEPT !.pc = "ended"]
    ELSE IF msg.kind = "request" /\ msg.Method = "invokeTool" THEN invokeTool(h, msg)
    ELSE h

Start ==
    /\ host.pc = "new"
    /\ host' = [host EXCEPT !.pc = "loop"]
    /\ UNCHANGED <<program, requestID, sent, initialized, last, ActionGroups, toolOwner,
                   adding, invoke, serving, handling>>

StartIteration(msg) ==
    /\ host.pc = "loop"
    /\ Len(host.received) < MaxMessages
    /\ host' = Iteration([host EXCEPT !.received = Append(@, msg)], msg)
    /\ UNCHANGED <<program, requestID, sent, initialized, last, ActionGroups, toolOwner,
                   adding, invoke, serving, handling>>

----------------------------------------------------------------------------
(* Goroutines sharing one MCPClient: net/http runs the /invoke handler of     *)
(* part_001 in a goroutine per request, each calling HandleToolUse on the     *)
(* same handler.mcpClient. sendRequest takes no lock; c.requestID++ is a load *)
(* and a store, and the request's ID is read from the field afterwards.       *)

\* c.requestID++, first half: the field is loaded
RequestIDLoad(g, c, toolCall) ==
    /\ serving[g].pc = "idle"
    /\ requestID[c] < MaxRequestID
    /\ Len(sent[c]) < MaxRequestID
    /\ serving' = [serving EXCEPT ![g] = [pc |-> "loaded", tmp |-> requestID[c],
                                          call |-> toolCall, err |-> Nil]]
    /\ UNCHANGED <<program, requestID, sent, initialized, last, ActionGroups, toolOwner,
                   adding, invoke, handling, host>>

\* c.requestID++, second half: the loaded value plus one is stored
RequestIDStore(g, c) ==
    /\ serving[g].pc = "loaded"
    /\ requestID' = [requestID EXCEPT ![c] = NextRequestID(serving[g].tmp)]
    /\ serving' = [serving EXCEPT ![g].pc = "stored"]
    /\ UNCHANGED <<program, sent, initialized, last, ActionGroups, toolOwner, adding, invoke, handling, host>>

\* CallTool from the line after the increment on, with the value the field has
\* when the request is built
CallToolAfterIncrement(prog, counter, toolCall, r) == CallTool(prog, counter - 1, toolCall, r)

\* The rest of the call: the request is built with ID c.requestID and sent, the
\* response is handled, the goroutine returns
RequestSent(g, c, out, r) ==
    /\ sent' = [sent EXCEPT ![c] = @ \o out.wire]
    /\ last' = LastCall("CallTool", c, <<r>>, serving[g].call, out, <<>>, out.result)
    /\ serving' = [serving EXCEPT ![g].pc = "idle", ![g].err = out.err]
    /\ UNCHANGED <<program, requestID, initialized, ActionGroups, toolOwner, adding, invoke, handling, host>>

RequestSend(g, c, r) ==
    /\ serving[g].pc = "stored"
    /\ RequestSent(g, c, CallToolAfterIncrement(program, requestID[c], serving[g].call, r), r)

\* The protocol client of either program, driven by one thread
Init ==
    /\ program \in Programs
    /\ NewClients

Next ==
    \/ \E r1, r2 \in HandshakeResponses : InitializeCall(mcpClient1, r1, r2)
    \/ \E r \in ListResponses : ListToolsCall(mcpClient1, r)
    \/ \E tc \in ToolCalls, r \in CallResponses : CallToolCall(mcpClient1, tc, r)

Spec == Init /\ [][Next]_vars

----------------------------------------------------------------------------
(* The inline agent of mcp_time setting up its action groups *)

GroupNames == {"SampleActionGroup"}

\* Member lists: the clients of a group, without repetition
MemberLists ==
    {<<>>} \cup {<<c>> : c \in Clients}
        \cup {<<c, d>> : <<c, d>> \in {p \in Clients \X Clients : p[1] # p[2]}}

\* Tool lists a server advertises
ToolLists ==
    {l \in UNION {[1 .. n -> ToolNames] : n \in 0 .. MaxTools} :
        \A i, j \in DOMAIN l : i # j => l[i] # l[j]}

AgentHandshakeResponses ==
    {Response(StatusOK, PlainBody(EnvelopeDoc(1, InitializeResult, NoError))), NetError}

AgentListResponses ==
    {Response(StatusOK, PlainBody(EnvelopeDoc(1, ToolsResult([i \in DOMAIN l |-> Tool(l[i])]), NoError))) :
        l \in ToolLists}
        \cup {Response(StatusOK, SSEBody(ErrorDoc)), NetError}

InitAgent ==
    /\ program = "mcp_time"
    /\ NewClients

NextAgent ==
    \/ \E name \in GroupNames, clients \in MemberLists : AddActionGroupCall(name, clients)
    \/ \E r1, r2 \in AgentHandshakeResponses, r3 \in AgentListResponses :
            AddActionGroupStep(r1, r2, r3)

SpecAgent == InitAgent /\ [][NextAgent]_vars

----------------------------------------------------------------------------
(* mcp_time's main: one action group, then Invoke on the model's turns *)

InputTexts == {<<"hello">>, <<"time?">>}

FormatInput == Document("format=RFC3339")

\* Assistant messages the model backend returns: text only, one tool use, and
\* text with two tool uses, the second of a tool no server advertises
AssistantContents ==
    {<<ContentBlockMemberText(<<"It is now ">>), ContentBlockMemberText(<<"12:00:00Z">>)>>,
     <<ContentBlockMemberToolUse("tooluse_1", "time", FormatInput)>>,
     <<ContentBlockMemberText(<<"Let me check.">>),
       ContentBlockMemberToolUse("tooluse_1", "time", FormatInput),
       ContentBlockMemberToolUse("tooluse_2", "search", NoInput)>>}

ConverseReplies ==
    {[err |-> FALSE, content |-> c] : c \in AssistantContents}
        \cup {[err |-> TRUE, content |-> <<>>]}

\* Answers to the tools/call of a tool use
ToolUseResponses ==
    {Response(StatusOK, PlainBody(EnvelopeDoc(1, CallResult(<<TextBlock("12:00:00Z")>>, FALSE), NoError))),
     Response(StatusOK, PlainBody(EnvelopeDoc(1, CallResult(<<TextBlock("12:00:00Z")>>, TRUE), NoError))),
     Response(StatusOK, PlainBody(EnvelopeDoc(1, ScalarResult, NoError))),
     Response(StatusOK, SSEBody(ErrorDoc)),
     NetError}

\* The members of main's action group: mcpClient1, alone or with a second client
InvokeMemberLists == {<<mcpClient1>>, <<mcpClient1, NClients>>}

InitInvoke ==
    /\ program = "mcp_time"
    /\ NewClients

NextInvoke ==
    \/ \E name \in GroupNames, clients \in InvokeMemberLists :
            last.op = "none" /\ AddActionGroupCall(name, clients)
    \/ \E r1, r2 \in AgentHandshakeResponses, r3 \in AgentListResponses :
            AddActionGroupStep(r1, r2, r3)
    \/ \E inputText \in InputTexts : InvokeCall(inputText)
    \/ \E reply \in ConverseReplies : ConverseStep(reply)
    \/ \E r \in ToolUseResponses : HandleToolUseStep(r)
    \/ CancelSignal

SpecInvoke == InitInvoke /\ [][NextInvoke]_vars

----------------------------------------------------------------------------
(* Two goroutines calling tools on the client of one handler *)

SharedResponses ==
    {Response(StatusOK, PlainBody(EnvelopeDoc(1, CallResult(<<TextBlock("12:00:00Z")>>, FALSE), NoError))),
     NetError}

SharedCalls == {[Name |-> "time", Arguments |-> "format=RFC3339"]}

InitShared ==
    /\ program \in Programs
    /\ NewClients

NextShared ==
    \/ \E g \in Callers, toolCall \in SharedCalls : RequestIDLoad(g, mcpClient1, toolCall)
    \/ \E g \in Callers : RequestIDStore(g, mcpClient1)
    \/ \E g \in Callers, r \in SharedResponses : RequestSend(g, mcpClient1, r)

SpecShared == InitShared /\ [][NextShared]_vars

----------------------------------------------------------------------------
(* Tool-use maps of any shape handled by either program *)

MapInput == Dyn("map[string]interface{}", "format=RFC3339")

\* Decoded tool-use maps: the id a string, a number or missing; the name an
\* advertised tool, an unknown tool, a number or missing; with and without input
ToolUseRequests ==
    {[toolUseId |-> id, name |-> name, input |-> input] :
        id \in {Dyn("string", "tooluse_1"), Dyn("float64", "7"), NilValue},
        name \in {Dyn("string", "time"), Dyn("string", "search"), Dyn("float64", "7"), NilValue},
        input \in {MapInput, NilValue}}

HandleResponses ==
    ToolUseResponses
        \cup {Response(StatusOK, PlainBody(EnvelopeDoc(1,
                    CallResult(<<TextBlock("12:00"), TextBlock("UTC")>>, FALSE), NoError)))}

InitHandle ==
    /\ program \in Programs
    /\ NewClients

NextHandle ==
    \/ \E name \in GroupNames, clients \in InvokeMemberLists :
            program = "mcp_time" /\ last.op = "none" /\ AddActionGroupCall(name, clients)
    \/ \E r1, r2 \in AgentHandshakeResponses, r3 \in AgentListResponses :
            AddActionGroupStep(r1, r2, r3)
    \/ \E toolUse \in ToolUseRequests, r \in HandleResponses : HandleToolUseCall(toolUse, r)

SpecHandle == InitHandle /\ [][NextHandle]_vars

----------------------------------------------------------------------------
(* The streaming tool host serving the messages of its session *)

HostHandlers == {"ok", "fail"}

HostMessages ==
    {JsonRpcRequest(id, "invokeTool", Dyn("string", name)) : id \in 1 .. 2, name \in HostTools}
        \cup {JsonRpcRequest(1, "invokeTool", NilValue), JsonRpcRequest(1, "ping", NilValue),
               OtherMessage, NextMessageError}

InitHost ==
    /\ program = "mcp_time"
    /\ NewClients

NextHost ==
    \/ \E name \in HostTools, handler \in HostHandlers : RegisterTool(name, handler)
    \/ Start
    \/ \E msg \in HostMessages : StartIteration(msg)

SpecHost == InitHost /\ [][NextHost]_vars

----------------------------------------------------------------------------
(* Properties *)

ClientOps == {"Initialize", "ListTools", "CallTool"}

Notification == "notifications/initialized"

\* The ids of the requests (not the notifications) client c has sent, in order
RequestIds(c) ==
    LET reqs == SelectSeq(sent[c], LAMBDA m : m.method # Notification)
    IN [i \in 1 .. Len(reqs) |-> reqs[i].id]

\* The envelope a 200 response carries, read as the protocol defines it: the
\* whole body as JSON, or the first data line of an SSE stream
CarriedDoc(r) ==
    IF r.neterr \/ r.status # StatusOK \/ r.body = <<>> THEN BlankDoc
    ELSE IF r.body[1].k = "event" THEN extractSSEData(r.body)
    ELSE IF Len(r.body) = 1 /\ r.body[1].k = "text" THEN r.body[1].doc
    ELSE JunkDoc

CarriesError(r) == CarriedDoc(r).valid /\ CarriedDoc(r).error.set

Is2xx(status) == status >= 200 /\ status <= 299

\* C1: ListTools and CallTool on a client on which no Initialize has succeeded
\* (never called, or failed) fail with InvalidState and send no request.
C1_NotReadyIsRejected ==
    (last.op \in {"ListTools", "CallTool"} /\ ~last.ready)
        => (last.err.kind = "InvalidState" /\ last.wire = <<>>)

\* C2: once Initialize has succeeded on a client, a later Initialize on it is
\* rejected with InvalidState and puts nothing on the wire.
C2_ReinitializeIsRejected ==
    (last.op = "Initialize" /\ last.ready)
        => (last.err.kind = "InvalidState" /\ last.wire = <<>>)

\* C3: the ids of the requests one client sends are strictly increasing, over any
\* sequence of Initialize, ListTools and CallTool calls, failed or not; so no id
\* is used twice.
C3_RequestIdsIncrease ==
    \A c \in Clients :
        \A i, j \in 1 .. Len(RequestIds(c)) :
            i < j => RequestIds(c)[i] < RequestIds(c)[j]

\* C3's case: a client that sent at least three requests, one of them in a
\* handshake that succeeded (the counter was advanced for the notification too)
C3_Witness ==
    \E c \in Clients :
        /\ Len(RequestIds(c)) >= 3
        /\ initialized[c]
        /\ requestID[c] > Len(RequestIds(c))

\* C4: the notifications/initialized message on the wire has no id field, and
\* every message sent by sendRequest has an id and a method field.
C4_NotificationHasNoId ==
    \A c \in Clients :
        \A i \in 1 .. Len(sent[c]) :
            IF sent[c][i].method = Notification
            THEN "id" \notin sent[c][i].fields
            ELSE {"id", "method"} \subseteq sent[c][i].fields

\* C5: when the 200 response to initialize, tools/list or tools/call carries a
\* populated error field (plain or SSE-framed), the call returns a failure with
\* the server's code, in both programs.
C5_ServerErrorIsReturned ==
    (last.op \in ClientOps /\ CarriesError(last.rs[1]))
        => (last.err.kind = "MCP error" /\ last.err.code = CarriedDoc(last.rs[1]).error.Code)

\* C6: when the 200 response to the notification parses to an envelope with an
\* error, Initialize fails; when its body is empty or does not parse, Initialize
\* succeeds; in both programs.
C6_NotificationErrorFailsHandshake ==
    (last.op = "Initialize" /\ Len(last.rs) = 2 /\ ~last.rs[2].neterr
        /\ last.rs[2].status = StatusOK)
        => /\ CarriesError(last.rs[2]) => last.err # Nil
           /\ ~CarriedDoc(last.rs[2]).valid => last.err = Nil

\* C7: sendRequest reports a transport failure for an HTTP response exactly when
\* the status is not 2xx, and the failure carries the status.
C7_FailureIffNot2xx ==
    (last.op \in ClientOps /\ ~last.rs[1].neterr)
        => /\ last.err.kind = "HTTP error" <=> ~Is2xx(last.rs[1].status)
           /\ last.err.kind = "HTTP error" => last.err.status = last.rs[1].status

\* C8: a transport failure of either handshake message (no connection, or a
\* status that is not 2xx) makes Initialize return an error.
C8_HandshakeTransportFailure ==
    (last.op = "Initialize"
        /\ \E i \in 1 .. Len(last.rs) : last.rs[i].neterr \/ ~Is2xx(last.rs[i].status))
        => last.err # Nil

\* C9: when AddActionGroup returns an error the agent's action groups are those
\* of before the call, and so are the tool catalogue and every tool's resolution.
C9_AddActionGroupAllOrNothing ==
    (last.op = "AddActionGroup" /\ last.err # Nil)
        => /\ ActionGroups = adding.before
           /\ buildToolConfig(ActionGroups) = buildToolConfig(adding.before)
           /\ \A n \in ToolNames :
                findMCPClientForTool(ActionGroups, n) = findMCPClientForTool(adding.before, n)

\* C9's case: the second member failed after the first had advertised a tool
C9_Witness ==
    /\ last.op = "AddActionGroup" /\ last.err # Nil
    /\ ~adding.active /\ adding.i = 2 /\ adding.Tools # <<>>

\* The client that advertised the first tool named n, in scan order
AllOwners == IF toolOwner = <<>> THEN <<>>
             ELSE [i \in 1 .. Len(AllTools(ActionGroups)) |->
                     LET RECURSIVE Flat(_)
                         Flat(o) == IF o = <<>> THEN <<>> ELSE Head(o) \o Flat(Tail(o))
                     IN Flat(toolOwner)[i]]

Advertised(n) == \E i \in 1 .. Len(AllTools(ActionGroups)) : AllTools(ActionGroups)[i].Name = n

FirstOwner(n) ==
    LET tools == AllTools(ActionGroups)
        idx == {i \in 1 .. Len(tools) : tools[i].Name = n}
    IN AllOwners[CHOOSE i \in idx : \A j \in idx : i <= j]

\* C10: for every advertised tool name, findMCPClientForTool returns the client
\* that advertised the first matching tool, also in a group of several members.
C10_FindReturnsOwner ==
    \A n \in ToolNames :
        Advertised(n) => findMCPClientForTool(ActionGroups, n) = FirstOwner(n)

\* The installed groups, in registration order, that advertise a tool named n
GroupsAdvertising(groups, n) ==
    {g \in 1 .. Len(groups) : \E t \in 1 .. Len(groups[g].Tools) : groups[g].Tools[t].Name = n}

FirstGroupAdvertising(groups, n) ==
    CHOOSE g \in GroupsAdvertising(groups, n) : \A h \in GroupsAdvertising(groups, n) : g <= h

MembersOf(group) == {group.MCPClients[i] : i \in 1 .. Len(group.MCPClients)}

ResolvesToFirstGroup(groups, n) ==
    IF GroupsAdvertising(groups, n) = {}
    THEN findMCPClientForTool(groups, n) = NilClient
    ELSE findMCPClientForTool(groups, n) \in MembersOf(groups[FirstGroupAdvertising(groups, n)])

CarriesResult(r) ==
    /\ ~r.neterr /\ r.status = StatusOK
    /\ CarriedDoc(r).valid /\ ~CarriedDoc(r).error.set

\* C19: ListTools fails when the result of the tools/list response has no tools
\* field or one that is not an array (null, a string), or when there is no
\* result; it does not return an empty list for it.
C19_MalformedToolsIsFailure ==
    (last.op = "ListTools" /\ CarriesResult(last.rs[1])
        /\ CarriedDoc(last.rs[1]).result.tools.k # "array")
        => last.err # Nil

\* C20: when the 200 response to tools/list carries a result whose tools field
\* is an array of Tool records, ListTools returns those tools in that order, in
\* both programs.
C20_ListToolsReturnsServerTools ==
    (last.op = "ListTools" /\ CarriesResult(last.rs[1])
        /\ CarriedDoc(last.rs[1]).result.tools.k = "array")
        => /\ last.err = Nil
           /\ last.tools = CarriedDoc(last.rs[1]).result.tools.items

\* The response is a 200 whose body is empty or an SSE stream without a data line
CarriesNothing(r) ==
    /\ ~r.neterr /\ r.status = StatusOK
    /\ r.body \in {EmptyBody, SSENoDataBody}

\* C21: CallTool fails when the result of the tools/call response does not
\* deserialize into a ToolResult: a scalar or array result, or no result at all
\* (an empty body, an SSE stream without data).
C21_UndecodableResultIsFailure ==
    (last.op = "CallTool"
        /\ \/ CarriesNothing(last.rs[1])
           \/ /\ CarriesResult(last.rs[1])
              /\ CarriedDoc(last.rs[1]).result.t \in {"scalar", "array"})
        => last.err # Nil

\* C25: for a 200 response with an empty body, or with an SSE body that has no
\* data line, sendRequest returns no error and a response with a null result
\* and the id of the request just sent.
C25_EmptyBodyIsNullSuccess ==
    (last.op \in ClientOps /\ CarriesNothing(last.rs[1]))
        => /\ last.send.err = Nil
           /\ last.send.resp.ID = last.wire[1].id
           /\ last.send.resp.Result = NullResult
           /\ ~last.send.resp.Error.set

\* C25's case: a tools/call that is not the client's first request was answered
\* by an SSE stream without a data line
C25_Witness ==
    /\ last.op = "CallTool"
    /\ last.rs[1] = Response(StatusOK, SSENoDataBody)
    /\ last.wire[1].id >= 2
    /\ last.send.resp.ID = last.wire[1].id

DecodingFailures == {"failed to unmarshal response", "failed to unmarshal SSE JSON data"}

\* C27: a non-empty 200 body that is neither SSE-framed nor the JSON of an
\* envelope makes sendRequest fail with a decoding failure, in both programs.
C27_JunkBodyIsDecodingFailure ==
    (last.op \in ClientOps /\ ~last.rs[1].neterr /\ last.rs[1].status = StatusOK
        /\ last.rs[1].body # <<>> /\ ~HasEventPrefix(last.rs[1].body)
        /\ ~CarriedDoc(last.rs[1]).valid)
        => last.send.err.kind \in DecodingFailures

\* C30: the k-th request a client sends (initialize, tools/list, tools/call; not
\* the notification) carries id k.
C30_KthRequestHasIdK ==
    \A c \in Clients :
        \A k \in 1 .. Len(RequestIds(c)) : RequestIds(c)[k] = k

\* The text after "data:" of the first data line of a body that has one
RECURSIVE FirstDataDoc(_)
FirstDataDoc(body) ==
    IF Head(body).k = "data" THEN Head(body).doc ELSE FirstDataDoc(Tail(body))

HasDataLine(body) == \E i \in 1 .. Len(body) : body[i].k = "data"

\* The other framing of the envelope a 200 body carries: the plain JSON of the
\* first data line of an SSE body, the SSE framing of a plain body
OtherFraming(body) ==
    IF body[1].k = "event" THEN PlainBody(FirstDataDoc(body))
    ELSE SSEBody(body[1].doc)

\* The 200 body is the plain JSON of an envelope, or an SSE stream whose first
\* data line is the JSON of an envelope
CarriesEnvelope(r) ==
    /\ ~r.neterr /\ r.status = StatusOK /\ r.body # <<>>
    /\ IF r.body[1].k = "event"
       THEN HasDataLine(r.body) /\ FirstDataDoc(r.body).valid
       ELSE Len(r.body) = 1 /\ r.body[1].k = "text" /\ r.body[1].doc.valid

\* What the sendRequest of the last call returns for the response r instead
Resent(r) ==
    Sent(sendRequest(program, last.before, last.wire[1].method, last.wire[1].params, r))

WithId(r, id) ==
    [r EXCEPT !.body = [i \in 1 .. Len(r.body) |->
                            IF r.body[i].doc.valid
                            THEN [r.body[i] EXCEPT !.doc.id = id]
                            ELSE r.body[i]]]

\* C28: a well-formed response whose id differs from the id of the request is
\* accepted, and the error or result returned is that for a matching id.
C28_ResponseIdIsNotChecked ==
    (last.op \in ClientOps /\ CarriesEnvelope(last.rs[1])
        /\ CarriedDoc(last.rs[1]).id # last.wire[1].id)
        => /\ last.send.err = Resent(WithId(last.rs[1], last.wire[1].id)).err
           /\ last.send.resp.Result
                = Resent(WithId(last.rs[1], last.wire[1].id)).resp.Result

\* C28's case: a tools/list sent with id 3 was answered with id 1 and its tools
\* were returned
C28_Witness ==
    /\ last.op = "ListTools"
    /\ last.wire[1].id = 3
    /\ CarriesEnvelope(last.rs[1]) /\ CarriedDoc(last.rs[1]).id = 1
    /\ last.err = Nil /\ last.tools # <<>>

----------------------------------------------------------------------------
(* Properties of Invoke *)

\* The tool use the loop over toolUses is at
CurrentToolUse == invoke.toolUses[invoke.k]

\* The tool use the last iteration of the loop handled, and its tool result block
HandledToolUse == invoke.toolUses[Len(invoke.toolResults)]

HandledBlock == invoke.toolResults[Len(invoke.toolResults)]

\* The last iteration of Invoke's loops was one over a tool use
ToolUseJustHandled ==
    /\ invoke.log # <<>>
    /\ invoke.log[Len(invoke.log)].ev = "handleToolUse"
    /\ invoke.toolResults # <<>>

\* The tool-use ids an assistant message requests, in order
RECURSIVE IdsRequested(_)
IdsRequested(content) ==
    IF content = <<>> THEN <<>>
    ELSE IF Head(content).kind = "toolUse"
         THEN <<Head(content).ToolUseId>> \o IdsRequested(Tail(content))
         ELSE IdsRequested(Tail(content))

\* The tool-use ids of the tool result blocks of a message, in order
RECURSIVE IdsAnswered(_)
IdsAnswered(content) ==
    IF content = <<>> THEN <<>>
    ELSE IF Head(content).kind = "toolResult"
         THEN <<Head(content).ToolUseId>> \o IdsAnswered(Tail(content))
         ELSE IdsAnswered(Tail(content))

\* The text blocks of a message joined in order
RECURSIVE JoinedText(_)
JoinedText(content) ==
    IF content = <<>> THEN <<>>
    ELSE IF Head(content).kind = "text"
         THEN Head(content).Value \o JoinedText(Tail(content))
         ELSE JoinedText(Tail(content))

ToolsCallsSent(c) == SelectSeq(sent[c], LAMBDA m : m.method = "tools/call")

\* C12: a tool use naming a tool X that no group advertises gives one tool result
\* block with its tool-use id and the text "Tool 'X' not found", sends nothing to
\* any tool server, and Invoke goes on without an error.
C12_UnknownToolIsSoft ==
    [][(/\ invoke.pc = "tools" /\ invoke'.log # invoke.log
        /\ GroupsAdvertising(ActionGroups, CurrentToolUse.name) = {})
        => /\ sent' = sent /\ requestID' = requestID
           /\ invoke'.pc \in {"tools", "converse"}
           /\ invoke'.ret.err = Nil
           /\ Len(invoke'.toolResults) = Len(invoke.toolResults) + 1
           /\ invoke'.toolResults[Len(invoke'.toolResults)].kind = "toolResult"
           /\ invoke'.toolResults[Len(invoke'.toolResults)].ToolUseId = CurrentToolUse.toolUseId
           /\ invoke'.toolResults[Len(invoke'.toolResults)].Value
                    = <<"Tool '", CurrentToolUse.name, "' not found">>]_vars

\* C12's case: the last tool use of a turn named a tool that is not advertised,
\* and Invoke is about to call the model again
C12_Witness ==
    /\ ToolUseJustHandled
    /\ invoke.pc = "converse"
    /\ GroupsAdvertising(ActionGroups, HandledToolUse.name) = {}
    /\ HandledBlock.Value = <<"Tool '", HandledToolUse.name, "' not found">>

\* C13: an error of CallTool becomes a tool result block for the tool-use id and
\* Invoke goes on; Invoke returns an error only when Converse failed, and then
\* at once, with no tool dispatched after the failed call.
C13_ToolFailuresSoftModelFailuresHard ==
    /\ []((ToolUseJustHandled /\ last.op = "handleToolUse" /\ last.err # Nil)
            => /\ invoke.pc \in {"tools", "converse"}
               /\ invoke.ret.err = Nil
               /\ HandledBlock.kind = "toolResult"
               /\ HandledBlock.ToolUseId = HandledToolUse.toolUseId)
    /\ []((invoke.pc = "returned" /\ invoke.ret.err # Nil)
            => /\ invoke.ret.err.wrap = "bedrock converse failed"
               /\ invoke.log[Len(invoke.log)].ev = "Converse")
    /\ [][(invoke.pc = "converse" /\ invoke'.pc = "returned" /\ invoke'.ret.err # Nil)
            => sent' = sent]_vars

\* C13's case: a CallTool failed in the first turn, Invoke went on to the model,
\* and that call failed
C13_Witness ==
    /\ last.op = "handleToolUse" /\ last.err # Nil
    /\ invoke.pc = "returned" /\ invoke.ret.err # Nil
    /\ invoke.turns = 2

\* C14: the tool result block appended for a failed call, for a tool that was not
\* found, or for a ToolResult with isError is tagged as an error.
C14_FailedToolResultIsTagged ==
    (ToolUseJustHandled /\ invoke.handled.result.status = "error")
        => HandledBlock.Status = "error"

\* C15: a tool use naming a registered tool makes exactly one tools/call, whose
\* arguments are the structured input of the tool use.
C15_ToolCalledOnceWithInput ==
    (ToolUseJustHandled /\ GroupsAdvertising(ActionGroups, HandledToolUse.name) # {})
        => /\ last.op = "handleToolUse"
           /\ Len(last.wire) = 1
           /\ last.wire[1].method = "tools/call"
           /\ last.wire[1].params.name = HandledToolUse.name
           /\ last.wire[1].params.arguments = HandledToolUse.input.value

\* C16: for an assistant turn with n tool uses, the tools are dispatched one at a
\* time in the order of the message, the i-th tool result carries the i-th
\* tool-use id, and the model is called again only with one user message holding
\* all n tool results appended.
C16_OneOrderedResultPerToolUse ==
    /\ invoke.pc = "tools"
        => LET ids == IdsRequested(invoke.messages[Len(invoke.messages)].Content)
               done == Len(invoke.toolResults)
           IN /\ Len(invoke.messages) = 2 * invoke.turns
              /\ done = invoke.k - 1 /\ done < Len(ids)
              /\ IdsAnswered(invoke.toolResults) = SubSeq(ids, 1, done)
              /\ \A i \in 1 .. done :
                    /\ invoke.log[Len(invoke.log) - done + i].ev = "handleToolUse"
                    /\ invoke.log[Len(invoke.log) - done + i].id = ids[i]
              /\ invoke.log[Len(invoke.log) - done].ev = "Converse"
    /\ (invoke.pc = "converse" /\ invoke.turns > 0)
        => LET ids == IdsRequested(invoke.messages[Len(invoke.messages) - 1].Content)
               n == Len(ids)
               results == invoke.messages[Len(invoke.messages)]
           IN /\ Len(invoke.messages) = 2 * invoke.turns + 1
              /\ n >= 1
              /\ results.Role = ConversationRoleUser
              /\ Len(results.Content) = n
              /\ IdsAnswered(results.Content) = ids
              /\ invoke.input = invoke.messages
              /\ \A i \in 1 .. n :
                    /\ invoke.log[Len(invoke.log) - n + i].ev = "handleToolUse"
                    /\ invoke.log[Len(invoke.log) - n + i].id = ids[i]
              /\ invoke.log[Len(invoke.log) - n].ev = "Converse"

\* C16's case: a turn with two tool uses has been answered
C16_Witness ==
    /\ invoke.pc = "converse" /\ invoke.turns = 1
    /\ Len(invoke.toolUses) = 2
    /\ Len(invoke.messages[3].Content) = 2
    /\ invoke.messages[3].Content[1].ToolUseId # invoke.messages[3].Content[2].ToolUseId

\* C17: Invoke returns an answer exactly when the latest assistant message has no
\* tool use; the answer is the text blocks of that message joined in order; after
\* a first turn without a tool use no tools/call has been sent.
C17_AnswerIsTerminalText ==
    /\ (invoke.messages # <<>>
            /\ invoke.messages[Len(invoke.messages)].Role = ConversationRoleAssistant)
        => LET terminal == invoke.messages[Len(invoke.messages)].Content
           IN /\ IdsRequested(terminal) = <<>>
                    <=> (invoke.pc = "returned" /\ invoke.ret.err = Nil)
              /\ invoke.pc = "returned" => invoke.ret.text = JoinedText(terminal)
    /\ (invoke.pc = "returned" /\ invoke.ret.err = Nil)
        => /\ invoke.messages[Len(invoke.messages)].Role = ConversationRoleAssistant
           /\ invoke.turns = 1 => \A c \in Clients : ToolsCallsSent(c) = <<>>

\* C17's case: after a turn with tool uses and their text, the second turn has
\* two text blocks and no tool use
C17_Witness ==
    /\ invoke.pc = "returned" /\ invoke.ret.err = Nil
    /\ invoke.turns = 2
    /\ JoinedText(invoke.messages[2].Content) # <<>>
    /\ Len(invoke.ret.text) = 2

\* s is an initial part of t
IsPrefix(s, t) == Len(s) <= Len(t) /\ SubSeq(t, 1, Len(s)) = s

\* C18: during Invoke the conversation only grows at its end, starts with one
\* user message holding the input text, alternates user and assistant, and a
\* message holds tool results only right after the assistant message that
\* requested exactly those tool-use ids.
C18_ConversationWellFormed ==
    /\ [](invoke.pc # "idle"
            => /\ invoke.messages # <<>>
               /\ invoke.messages[1]
                    = [Role |-> "user", Content |-> <<ContentBlockMemberText(invoke.inputText)>>]
               /\ \A i \in 1 .. Len(invoke.messages) :
                    /\ invoke.messages[i].Role = IF i % 2 = 1 THEN "user" ELSE "assistant"
                    /\ IdsAnswered(invoke.messages[i].Content) # <<>>
                        => /\ i > 1
                           /\ IdsAnswered(invoke.messages[i].Content)
                                = IdsRequested(invoke.messages[i - 1].Content)
                    /\ (i > 1 /\ i % 2 = 1)
                        => /\ IdsAnswered(invoke.messages[i].Content) # <<>>
                           /\ Len(IdsAnswered(invoke.messages[i].Content))
                                = Len(invoke.messages[i].Content))
    /\ [][invoke.pc # "idle" => IsPrefix(invoke.messages, invoke'.messages)]_vars

\* C18's case: a conversation of four messages, the third holding tool results
C18_Witness ==
    /\ Len(invoke.messages) = 4
    /\ Len(IdsAnswered(invoke.messages[3].Content)) = 2

----------------------------------------------------------------------------
(* Handshake order *)

\* The methods of the messages client c has put on the wire, in order
Methods(c) == [i \in 1 .. Len(sent[c]) |-> sent[c][i].method]

HandshakeOrder == <<"initialize", "notifications/initialized", "tools/list">>

\* The last step was an iteration of AddActionGroup's loop
MemberJustAdded == last.op \in {"AddActionGroup", "AddActionGroup:member"} /\ last.client # 0

\* C29: a member's server sees initialize, then the notification, then
\* tools/list; the notification only after initialize succeeded, tools/list only
\* after the notification was delivered; members are handled in list order, and
\* after the first failing member nothing is sent to the members behind it.
C29_HandshakeOrder ==
    /\ \A c \in Clients : IsPrefix(Methods(c), HandshakeOrder)
    /\ MemberJustAdded
        => /\ Len(last.wire) >= 2
                => /\ ~last.rs[1].neterr /\ last.rs[1].status = StatusOK
                   /\ ~CarriesError(last.rs[1])
           /\ Len(last.wire) = 3 => (~last.rs[2].neterr /\ initialized[last.client])
           /\ last.client = adding.MCPClients[adding.i - (IF adding.active THEN 1 ELSE 0)]
    /\ adding.MCPClients # <<>>
        => /\ \A j \in 1 .. Len(adding.MCPClients) :
                j < adding.i => Methods(adding.MCPClients[j]) = HandshakeOrder
           /\ (adding.active \/ last.err # Nil)
                => \A j \in 1 .. Len(adding.MCPClients) :
                        (j > adding.i \/ (adding.active /\ j = adding.i))
                            => sent[adding.MCPClients[j]] = <<>>

\* C29's case: the first of two members delivered initialize but not the
\* notification; AddActionGroup returned and the second member sent nothing
C29_Witness ==
    /\ last.op = "AddActionGroup" /\ last.err # Nil
    /\ Len(adding.MCPClients) = 2 /\ adding.i = 1
    /\ Methods(adding.MCPClients[1]) = <<"initialize", "notifications/initialized">>
    /\ sent[adding.MCPClients[2]] = <<>>

----------------------------------------------------------------------------
(* Cancellation and termination of Invoke *)

\* C23: after a cancellation signal raised while Invoke waits for the model or
\* for a tool, the call Invoke is waiting for is the last one: when it returns,
\* Invoke returns an error, without a further model or tool call and without
\* touching the conversation.
C23_CancelAbortsInvoke ==
    [][(invoke.cancelled /\ invoke'.log # invoke.log)
          => /\ invoke'.pc = "returned"
             /\ invoke'.ret.err # Nil
             /\ invoke'.messages = invoke.messages]_vars

\* The last assistant turn of the conversation asked for no tool
LastTurnToolFree ==
    /\ Len(invoke.messages) > 0
    /\ invoke.messages[Len(invoke.messages)].Role = ConversationRoleAssistant
    /\ Len(ToolUsesOf(invoke.messages[Len(invoke.messages)].Content)) = 0

\* C24: Invoke has no iteration cap. It returns only after a tool-free turn of
\* the model or a failed model call; after the tool results of a turn it always
\* goes back to the model, and the conversation has grown by two messages per
\* turn: 2 * turns + 1 messages when the model is called again.
C24_NoIterationCap ==
    /\ [](invoke.pc = "returned" => (LastTurnToolFree \/ invoke.ret.err # Nil))
    /\ [](invoke.pc = "converse" => Len(invoke.messages) = 2 * invoke.turns + 1)
    /\ [][(invoke.pc = "tools" /\ invoke'.pc # "tools") => invoke'.pc = "converse"]_vars

\* The model asked for tools in each of MaxTurns turns and Invoke is about to
\* call it again
C24_Witness ==
    /\ invoke.pc = "converse"
    /\ invoke.turns = MaxTurns
    /\ Len(invoke.messages) = 2 * MaxTurns + 1

----------------------------------------------------------------------------
(* Shared clients *)

\* C22: with several goroutines calling into one client, no two requests of the
\* client carry the same id and no increment of the counter is lost.
C22_SharedCounterIsAtomic ==
    \A c \in Clients :
        /\ \A i, j \in 1 .. Len(sent[c]) : i # j => sent[c][i].id # sent[c][j].id
        /\ (\A g \in Callers : serving[g].pc = "idle") => requestID[c] = Len(sent[c])

----------------------------------------------------------------------------
(* HandleToolUse / handleToolUse as a function of its map *)

\* The tool the map names is advertised by no group (mcp_time only)
ToolNotFound ==
    /\ program = "mcp_time"
    /\ GroupsAdvertising(ActionGroups, StringOf(handling.toolUse.name)) = {}

TextsOf(result) == [i \in 1 .. Len(result.Content) |-> [text |-> Str(result.Content[i].Text)]]

\* The function returns a hard error only for a map without a string name
C31_HardErrorOnlyWithoutName ==
    handling.done => ((handling.out.err # Nil) <=> (handling.toolUse.name.dyn # "string"))

\* The status is "error" exactly for a tool not found, a failed CallTool or a
\* ToolResult with isError, and "success" otherwise; on success the content is
\* one text entry per content block, in order
C31_StatusAndContent ==
    (handling.done /\ handling.out.err = Nil) =>
        /\ handling.out.result.status \in {"error", "success"}
        /\ (handling.out.result.status = "error")
              <=> (ToolNotFound \/ handling.callErr # Nil \/ handling.result.IsError)
        /\ handling.out.result.status = "success"
              => handling.out.result.content = TextsOf(handling.result)

\* The output carries the tool-use id of the input
C31_EchoesToolUseId ==
    (handling.done /\ handling.out.err = Nil) =>
        handling.out.result.toolUseId = handling.toolUse.toolUseId.value

\* C31: HandleToolUse / handleToolUse echoes the tool-use id of its input, its
\* status is "error" exactly when the tool was not found, CallTool failed or the
\* ToolResult has isError and "success" otherwise, it returns a hard error only
\* for a map without a string name, and on success its content holds one text
\* entry per content block of the ToolResult, in order.
C31_HandleToolUseOutput ==
    /\ C31_HardErrorOnlyWithoutName
    /\ C31_StatusAndContent
    /\ C31_EchoesToolUseId

----------------------------------------------------------------------------
(* The streaming tool host *)

\* The invokeTool requests among the messages received, in arrival order
InvokeRequests == SelectSeq(host.received, LAMBDA m : m.kind = "request" /\ m.Method = "invokeTool")

\* The response a request is owed: a result when its handler succeeds, an error
\* when it fails or when there is none
OwedResponse(req) ==
    IF /\ req.name.dyn = "string" /\ req.name.value \in DOMAIN host.tools
       /\ host.tools[req.name.value] = "ok"
    THEN NewResponse(req.Id) ELSE NewError(req.Id)

\* C32: every invokeTool request received before the first NextMessage error has
\* exactly one response with its id, a result when the handler succeeds and an
\* error when it fails or is not registered; the loop does not crash, it ends at
\* the first NextMessage error, and the responses are in arrival order.
C32_EveryRequestAnswered ==
    /\ host.pc # "panicked"
    /\ host.responded = [i \in 1 .. Len(InvokeRequests) |-> OwedResponse(InvokeRequests[i])]
    /\ host.pc = "ended" <=> (host.received # <<>>
                                /\ host.received[Len(host.received)].kind = "error")

====
